---- MODULE Spec2Model ----
(***************************************************************************)
(* Model of the profile-readme updater (scripts/update-readme).            *)
(*                                                                         *)
(* Time is counted in ticks: TicksPerDay ticks make one UTC day, tick 0 of *)
(* a day is 00:00:00.000 UTC.  An instant is the number of ticks since     *)
(* 1970-01-01T00:00:00.000Z, the way a JavaScript Date holds milliseconds. *)
(***************************************************************************)
EXTENDS Integers, Sequences, FiniteSets, TLC

\* ------------------------------------------------------------------ bounds
NowYear == 2026
MaxYearsBack == 2
TicksPerDay == 2
MaxSegments == 2
MaxValueLen == 60
MaxMonthsBack == 2
MaxOtherWrites == 2

\* ------------------------------------------------------ program constants
CONTENT_WIDTH == 64
CONTENT_PADDING == 5
PER_PAGE == 100
DELAY_MS == 2000

\* ------------------------------------------------------------------- state
VARIABLES
  \* one call of calculateDateRanges
  chunk, fromYear, fromMonth,   \* its arguments
  now,                          \* the clock reading (new Date()) of the call
  ranges,                       \* the array the call returned
  cpc,                          \* "idle", "call" before the call, "returned" after
  \* one call of generatePopulatedTemplate
  template,                     \* the text of template.txt, a sequence of characters
  stats,                        \* the statistics mapping: key |-> display string
  populatedTemplate,            \* the string the call returned
  replaced,                     \* the replacer callback's calls: [key, text] in order
  rpc                           \* "idle", "call" before the call, "returned" after

VARIABLES
  \* the run of the script (index.js main) and of the helpers it awaits
  pc,                           \* the statement the run is at
  entry,                        \* the function the run entered at: main or a helper
  pending,                      \* the remote call awaited, "none" when there is none
  returned,                     \* <<what the entered helper returned>>, <<>> before
  clock,                        \* the clock reading of the run
  user,                         \* user.data of getAuthenticated: login, created_at
  repositories,                 \* the number of repositories listed
  APIRequests,
  pageNo, pageItems, pageRest,  \* octokit.paginate: pages got, items got, items left
  yearlyDateRanges, yi, contributions, fetchContributionsAPICallCount,
  monthlyDateRanges, mi, commits, ci, additions, deletions,
  fetchLinesOfCodeAPICallCount,
  readmeSha, commitPopulatedTemplateAPICallCount,
  \* the remote service
  createdAt,                    \* the account's created_at, an ISO string
  offered,                      \* the answers the service may give in this run
  remote,                       \* readme.md of the profile repository: sha, content
  sentSha,                      \* the sha carried by the write in flight
  otherWrites,                  \* updates of readme.md by other writers so far
  \* what an observer of the run records
  responses,                    \* the totals the graph queries answered, in order
  queried,                      \* the variables of the graph queries sent, in order
  pageFetches, detailFetches,   \* search pages and commit details fetched
  lastRange, sleptMs,           \* range of the last search or detail call; sleep since
  gap,                          \* at the latest such call: previous range, range, sleep
  issued,                       \* remote calls sent so far
  failures, issuedAtFailure,    \* remote calls that failed; issued at the first failure
  ourWrites,                    \* writes of readme.md by this run that were accepted
  otherSinceRead,               \* another writer updated readme.md after our read
  staleWrite,                   \* our accepted writes that replaced such an update
  readmeReads, readmeWrites,    \* reads and writes of readme.md this run has sent
  conflicts                     \* writes of this run the service refused as stale

chunkVars == <<chunk, fromYear, fromMonth, now, ranges, cpc>>
renderVars == <<template, stats, populatedTemplate, replaced, rpc>>
ctlVars == <<pc, pending, returned>>
envVars == <<entry, clock, createdAt, offered>>
mainVars == <<user, repositories, APIRequests>>
pageVars == <<pageNo, pageItems, pageRest>>
contribVars == <<yearlyDateRanges, yi, contributions, fetchContributionsAPICallCount>>
locVars ==
  <<monthlyDateRanges, mi, commits, ci, additions, deletions, fetchLinesOfCodeAPICallCount>>
commitVars == <<readmeSha, commitPopulatedTemplateAPICallCount>>
remoteVars ==
  <<remote, sentSha, otherWrites, ourWrites, otherSinceRead, staleWrite, readmeReads,
    readmeWrites, conflicts>>
contribHist == <<responses, queried>>
locHist == <<pageFetches, detailFetches, lastRange, sleptMs, gap>>
failHist == <<failures, issuedAtFailure>>
pipeVars ==
  <<ctlVars, envVars, mainVars, pageVars, contribVars, locVars, commitVars, remoteVars,
    contribHist, locHist, failHist, issued>>
vars == <<chunkVars, renderVars, pipeVars>>

\* ---------------------------------------------------------------- calendar
\* ECMAScript date arithmetic (the Date built-in used by calculateDateRanges)

InLeapYear(y) == (y % 4 = 0 /\ y % 100 # 0) \/ y % 400 = 0

DayFromYear(y) ==
  365 * (y - 1970) + ((y - 1969) \div 4) - ((y - 1901) \div 100) + ((y - 1601) \div 400)

DaysInMonth(y, m) ==
  IF m = 1 THEN (IF InLeapYear(y) THEN 29 ELSE 28)
  ELSE IF m \in {3, 5, 8, 10} THEN 30 ELSE 31

RECURSIVE DaysBeforeMonth(_, _)
DaysBeforeMonth(y, m) ==
  IF m = 0 THEN 0 ELSE DaysBeforeMonth(y, m - 1) + DaysInMonth(y, m - 1)

\* Date.UTC(year, month, date): two-digit years mean 1900 + year, a month
\* outside 0..11 carries into the year, the result is an instant.
DateUTC(year, month, date) ==
  LET yr == IF year \in 0..99 THEN 1900 + year ELSE year
      ym == yr + (month \div 12)
      mn == month % 12
  IN  (DayFromYear(ym) + DaysBeforeMonth(ym, mn) + date - 1) * TicksPerDay

Day(t) == t \div TicksPerDay

getUTCFullYear(t) ==
  LET y0 == 1970 + (Day(t) \div 366)
  IN  CHOOSE y \in y0..(y0 + 1) : DayFromYear(y) <= Day(t) /\ Day(t) < DayFromYear(y + 1)

getUTCMonth(t) ==
  LET y == getUTCFullYear(t)
      d == Day(t) - DayFromYear(y)
  IN  CHOOSE m \in 0..11 :
        DaysBeforeMonth(y, m) <= d /\ d < DaysBeforeMonth(y, m) + DaysInMonth(y, m)

getUTCDate(t) ==
  LET y == getUTCFullYear(t)
  IN  Day(t) - DayFromYear(y) - DaysBeforeMonth(y, getUTCMonth(t)) + 1

\* Date.prototype.toISOString: "YYYY-MM-DDThh:mm:ss.sssZ", held as the tuple
\* of its fields <<YYYY, MM, DD, time of day>>; the month is written 1-based.
toISOString(t) == <<getUTCFullYear(t), getUTCMonth(t) + 1, getUTCDate(t), t % TicksPerDay>>

\* new Date(isoString): the instant an ISO string names
ParseISO(s) == DateUTC(s[1], s[2] - 1, s[3]) + s[4]

\* Date.prototype.getFullYear and getMonth read the local time; the script
\* runs with the time zone of its runner, UTC
getFullYear(t) == getUTCFullYear(t)
getMonth(t) == getUTCMonth(t)

\* date-fns isBefore: is the first instant strictly before the second
\* (faulty variant: a loop that also runs when current equals now)
isBeforeOrEqual(date, dateToCompare) == date <= dateToCompare
isBefore(date, dateToCompare) == date < dateToCompare

\* ------------------------------------------------------ calculateDateRanges
nextMonth(current) == DateUTC(getUTCFullYear(current), getUTCMonth(current) + 1, 1)

nextYear(current) == DateUTC(getUTCFullYear(current) + 1, 0, 1)

\* the first current of the year loop: Date.UTC(fromYear, 0, 1)
\* (faulty variant: starting the year loop at fromMonth)
yearStartAtMonth(year, month) == DateUTC(year, month, 1)
yearStart(year, month) == DateUTC(year, 0, 1)

monthStart(year, month) == DateUTC(year, month, 1)

RECURSIVE monthLoop(_, _, _)
monthLoop(current, nowRead, acc) ==
  IF isBefore(current, nowRead)
  THEN LET next == nextMonth(current)
       IN  monthLoop(next, nowRead,
                     Append(acc, [from |-> toISOString(current), to |-> toISOString(next)]))
  ELSE acc

RECURSIVE yearLoop(_, _, _)
yearLoop(current, nowRead, acc) ==
  IF isBefore(current, nowRead)
  THEN LET next == nextYear(current)
       IN  yearLoop(next, nowRead,
                    Append(acc, [from |-> toISOString(current), to |-> toISOString(next)]))
  ELSE acc

\* calculateDateRanges(chunk, fromYear, fromMonth), with the clock reading it takes
calculateDateRanges(chunkArg, year, month, nowRead) ==
  LET afterMonth == IF chunkArg = "month"
                    THEN monthLoop(monthStart(year, month), nowRead, <<>>)
                    ELSE <<>>
  IN  IF chunkArg = "year"
      THEN yearLoop(yearStart(year, month), nowRead, afterMonth)
      ELSE afterMonth

\* ------------------------------------------------ generatePopulatedTemplate
\* Strings are sequences of one-character strings.

NA == <<"N", "/", "A">>

IsWhitespace(c) == c \in {" ", "\t", "\n"}

\* String.prototype.trim
RECURSIVE trimStart(_)
trimStart(str) ==
  IF str # <<>> /\ IsWhitespace(Head(str)) THEN trimStart(Tail(str)) ELSE str

RECURSIVE trimEnd(_)
trimEnd(str) ==
  IF str # <<>> /\ IsWhitespace(str[Len(str)])
  THEN trimEnd(SubSeq(str, 1, Len(str) - 1))
  ELSE str

trim(str) == trimEnd(trimStart(str))

\* String.prototype.repeat
RECURSIVE repeat(_, _)
repeat(str, count) == IF count <= 0 THEN <<>> ELSE str \o repeat(str, count - 1)

Max(a, b) == IF a >= b THEN a ELSE b

\* the property the replacer reads: stats[key.trim()]
\* (faulty variant: looking the captured text up untrimmed)
rawKey(key) == key
lookupKey(key) == trim(key)

\* stats[k] ?? "N/A"
valueOf(mapping, k) == IF k \in DOMAIN mapping THEN mapping[k] ELSE NA

\* the replacer callback (_, key) => `${dots} ${value}`
replacer(mapping, key) ==
  LET value == valueOf(mapping, lookupKey(key))
      dots == repeat(<<".">>, Max(0, CONTENT_WIDTH - CONTENT_PADDING - Len(key) - Len(value)))
  IN  dots \o <<" ">> \o value

\* /{{(.*?)}}/ tried at position i: the position of the closing "}}" nearest
\* to the opening "{{" at i with no line break in between, 0 when it fails
RECURSIVE closeFrom(_, _)
closeFrom(text, j) ==
  IF j + 1 > Len(text) THEN 0
  ELSE IF text[j] = "}" /\ text[j + 1] = "}" THEN j
  ELSE IF text[j] = "\n" THEN 0
  ELSE closeFrom(text, j + 1)

matchAt(text, i) ==
  IF i + 1 <= Len(text) /\ text[i] = "{" /\ text[i + 1] = "{"
  THEN closeFrom(text, i + 2)
  ELSE 0

\* template.replace(/{{(.*?)}}/g, replacer) from position i on: the output so
\* far and the replacer's calls so far
RECURSIVE replaceAll(_, _, _, _)
replaceAll(text, mapping, i, acc) ==
  IF i > Len(text) THEN acc
  ELSE LET j == matchAt(text, i)
       IN  IF j = 0
           THEN replaceAll(text, mapping, i + 1,
                           [acc EXCEPT !.out = @ \o <<text[i]>>])
           ELSE LET key == SubSeq(text, i + 2, j - 1)
                    with == replacer(mapping, key)
                IN  replaceAll(text, mapping, j + 2,
                               [out |-> acc.out \o with,
                                calls |-> Append(acc.calls, [key |-> key, text |-> with])])

generatePopulatedTemplate(text, mapping) ==
  replaceAll(text, mapping, 1, [out |-> <<>>, calls |-> <<>>])

\* --------------------------------------- a call of calculateDateRanges
\* clock readings: exactly at a year, month or day boundary, and inside a day
NowSet ==
  { DateUTC(NowYear, m, d) + k : m \in {0, 2, 11}, d \in {1, 15}, k \in 0..(TicksPerDay - 1) }

ChunkIdle ==
  /\ chunk = "none" /\ fromYear = 0 /\ fromMonth = 0 /\ now = 0
  /\ ranges = <<>> /\ cpc = "idle"

RenderIdle ==
  /\ template = <<>> /\ stats = <<>> /\ populatedTemplate = <<>>
  /\ replaced = <<>> /\ rpc = "idle"

PipeIdle ==
  /\ pc = "idle" /\ entry = "none" /\ pending = "none" /\ returned = <<>>
  /\ clock = 0 /\ user = <<>> /\ repositories = 0 /\ APIRequests = 0
  /\ pageNo = 0 /\ pageItems = 0 /\ pageRest = 0
  /\ yearlyDateRanges = <<>> /\ yi = 0 /\ contributions = 0
  /\ fetchContributionsAPICallCount = 0
  /\ monthlyDateRanges = <<>> /\ mi = 0 /\ commits = 0 /\ ci = 0
  /\ additions = 0 /\ deletions = 0 /\ fetchLinesOfCodeAPICallCount = 0
  /\ readmeSha = 0 /\ commitPopulatedTemplateAPICallCount = 0
  /\ createdAt = <<>> /\ offered = <<>> /\ remote = <<>> /\ sentSha = 0
  /\ otherWrites = 0 /\ responses = <<>> /\ queried = <<>>
  /\ pageFetches = 0 /\ detailFetches = 0 /\ lastRange = 0 /\ sleptMs = 0
  /\ gap = <<>> /\ issued = 0 /\ failures = 0 /\ issuedAtFailure = 0
  /\ ourWrites = 0 /\ otherSinceRead = FALSE /\ staleWrite = 0
  /\ readmeReads = 0 /\ readmeWrites = 0 /\ conflicts = 0

InitChunk ==
  /\ chunk \in {"month", "year"}
  /\ fromYear \in (NowYear - MaxYearsBack)..(NowYear + 1)
  /\ fromMonth \in 0..11
  /\ now \in NowSet
  /\ ranges = <<>>
  /\ cpc = "call"
  /\ RenderIdle
  /\ PipeIdle

CallCalculateDateRanges ==
  /\ cpc = "call"
  /\ ranges' = calculateDateRanges(chunk, fromYear, fromMonth, now)
  /\ cpc' = "returned"
  /\ UNCHANGED <<chunk, fromYear, fromMonth, now, renderVars, pipeVars>>

NextChunk == CallCalculateDateRanges

SpecChunk == InitChunk /\ [][NextChunk]_vars

\* ------------------------------------ a call of generatePopulatedTemplate
\* pieces a template file is put together from: placeholders written with
\* and without whitespace, plain text, stray braces and a line break
Segments ==
  { <<"{", "{", "x", "}", "}">>,
    <<"{", "{", " ", "x", " ", "}", "}">>,
    <<"{", "{", "y", " ", "}", "}">>,
    <<"s", ":", " ">>,
    <<"{">>,
    <<"}">>,
    <<"\n">> }

RECURSIVE Templates(_)
Templates(n) ==
  IF n = 0 THEN {<<>>}
  ELSE Templates(n - 1) \cup {t \o sg : t \in Templates(n - 1), sg \in Segments}

ValueOfLen(n) == IF n = 1 THEN <<"5">> ELSE [i \in 1..n |-> "v"]

ValueLens ==
  {1, CONTENT_WIDTH - CONTENT_PADDING - 2, CONTENT_WIDTH - CONTENT_PADDING - 1, MaxValueLen}

StatsSet ==
  {<<>>}
    \cup {(<<"x">> :> ValueOfLen(n)) : n \in ValueLens}
    \cup {(<<"x">> :> ValueOfLen(1)) @@ (<<"y">> :> <<"o", "k">>)}

InitRender ==
  /\ template \in Templates(MaxSegments)
  /\ stats \in StatsSet
  /\ populatedTemplate = <<>>
  /\ replaced = <<>>
  /\ rpc = "call"
  /\ ChunkIdle
  /\ PipeIdle

CallGeneratePopulatedTemplate ==
  /\ rpc = "call"
  /\ LET result == generatePopulatedTemplate(template, stats)
     IN  /\ populatedTemplate' = result.out
         /\ replaced' = result.calls
  /\ rpc' = "returned"
  /\ UNCHANGED <<template, stats, chunkVars, pipeVars>>

NextRender == CallGeneratePopulatedTemplate

SpecRender == InitRender /\ [][NextRender]_vars

\* ------------------------------------------------------- the awaited calls
\* A remote call is sent, then it resolves or rejects.  No helper and not
\* main catches a rejection: the async function awaiting the call rejects,
\* and so does every caller up to the top level, which ends the run.
\* (faulty variant: a rejection caught and the call sent again)
onRejectionRetry(position) == position
onRejection(position) == "failed"

\* a call about to be sent: nothing else is awaited
Sends(call) ==
  /\ pending = "none"
  /\ pending' = call
  /\ issued' = issued + 1

\* the awaited call fails (authentication, rate limit, network)
Rejected ==
  /\ pending # "none"
  /\ pending' = "none"
  /\ pc' = onRejection(pc)
  /\ failures' = failures + 1
  /\ issuedAtFailure' = IF failures = 0 THEN issued ELSE issuedAtFailure
  /\ UNCHANGED <<returned, envVars, mainVars, pageVars, contribVars, locVars, commitVars,
                 remoteVars, contribHist, locHist, issued, chunkVars, renderVars>>

\* ------------------------------------------------------ fetchContributions
\* contributions += totalContributions
\* (faulty variant: = in place of +=)
overwrite(sum, total) == total
accumulate(sum, total) == sum + total

EnterFetchContributions ==
  /\ pc = "fetchContributions"
  /\ LET creationDate == ParseISO(user.created_at)
         creationYear == getFullYear(creationDate)
     IN  yearlyDateRanges' = calculateDateRanges("year", creationYear, 0, clock)
  /\ fetchContributionsAPICallCount' = 0
  /\ contributions' = 0
  /\ yi' = 1
  /\ pc' = "contributionsLoop"
  /\ UNCHANGED <<pending, returned, envVars, mainVars, pageVars, locVars, commitVars,
                 remoteVars, contribHist, locHist, failHist, issued, chunkVars, renderVars>>

ContributionsQuerySend ==
  /\ pc = "contributionsLoop"
  /\ yi <= Len(yearlyDateRanges)
  /\ Sends("graphql")
  /\ queried' = Append(queried, [login |-> user.login,
                                 start |-> yearlyDateRanges[yi].from,
                                 end |-> yearlyDateRanges[yi].to])
  /\ UNCHANGED <<pc, returned, envVars, mainVars, pageVars, contribVars, locVars,
                 commitVars, remoteVars, responses, locHist, failHist, chunkVars,
                 renderVars>>

ContributionsQueryOk ==
  /\ pc = "contributionsLoop"
  /\ pending = "graphql"
  /\ \E totalContributions \in offered.totals :
       /\ contributions' = accumulate(contributions, totalContributions)
       /\ responses' = Append(responses, totalContributions)
  /\ fetchContributionsAPICallCount' = fetchContributionsAPICallCount + 1
  /\ yi' = yi + 1
  /\ pending' = "none"
  /\ UNCHANGED <<pc, returned, envVars, mainVars, pageVars, yearlyDateRanges, locVars,
                 commitVars, remoteVars, queried, locHist, failHist, issued, chunkVars,
                 renderVars>>

FetchContributionsReturn ==
  /\ pc = "contributionsLoop"
  /\ pending = "none"
  /\ yi > Len(yearlyDateRanges)
  /\ IF entry = "main"
     THEN /\ APIRequests' = APIRequests + fetchContributionsAPICallCount
          /\ pc' = "fetchLinesOfCode"
          /\ UNCHANGED returned
     ELSE /\ returned' = <<[contributions |-> contributions,
                           fetchContributionsAPICallCount |-> fetchContributionsAPICallCount]>>
          /\ pc' = "done"
          /\ UNCHANGED APIRequests
  /\ UNCHANGED <<pending, envVars, user, repositories, pageVars, contribVars, locVars,
                 commitVars, remoteVars, contribHist, locHist, failHist, issued, chunkVars,
                 renderVars>>

\* the state at the start of a run that enters at startPc
PipeStart(entryName, startPc) ==
  /\ pc = startPc /\ entry = entryName /\ pending = "none" /\ returned = <<>>
  /\ repositories = 0 /\ APIRequests = 0
  /\ pageNo = 0 /\ pageItems = 0 /\ pageRest = 0
  /\ yearlyDateRanges = <<>> /\ yi = 0 /\ contributions = 0
  /\ fetchContributionsAPICallCount = 0
  /\ monthlyDateRanges = <<>> /\ mi = 0 /\ commits = 0 /\ ci = 0
  /\ additions = 0 /\ deletions = 0 /\ fetchLinesOfCodeAPICallCount = 0
  /\ readmeSha = 0 /\ commitPopulatedTemplateAPICallCount = 0
  /\ remote = [sha |-> 1, content |-> <<"o", "l", "d">>] /\ sentSha = 0
  /\ otherWrites = 0 /\ responses = <<>> /\ queried = <<>>
  /\ pageFetches = 0 /\ detailFetches = 0 /\ lastRange = 0 /\ sleptMs = 0
  /\ gap = [prev |-> 0, cur |-> 0, slept |-> 0]
  /\ issued = 0 /\ failures = 0 /\ issuedAtFailure = 0
  /\ ourWrites = 0 /\ otherSinceRead = FALSE /\ staleWrite = 0
  /\ readmeReads = 0 /\ readmeWrites = 0 /\ conflicts = 0

\* a call of fetchContributions(octokit, username, since) on its own
InitContrib ==
  /\ PipeStart("fetchContributions", "fetchContributions")
  /\ clock \in {DateUTC(NowYear, 8, 15) + 1, DateUTC(NowYear + 1, 0, 1)}
  /\ createdAt \in {toISOString(DateUTC(NowYear - k, 5, 10) + 1) : k \in 0..MaxYearsBack}
  /\ user = [login |-> "login", created_at |-> createdAt]
  /\ offered = [totals |-> {3, 5, 7}, commits |-> {}, repos |-> {}]
  /\ ChunkIdle
  /\ RenderIdle

NextContrib ==
  \/ EnterFetchContributions
  \/ ContributionsQuerySend
  \/ ContributionsQueryOk
  \/ FetchContributionsReturn
  \/ Rejected

SpecContrib == InitContrib /\ [][NextContrib]_vars

\* -------------------------------------------------------- fetchLinesOfCode
Min(a, b) == IF a <= b THEN a ELSE b

\* fullCommit.data.stats of the j-th commit a search returned
commitStats(j) ==
  IF j % 2 = 1 THEN [additions |-> 10, deletions |-> 2]
  ELSE [additions |-> 3, deletions |-> 1]

\* the timer awaited after the commits of a range: setTimeout(resolve, 2000)
\* (faulty variant: no delay after a range without commits)
sleepOnlyAfterCommits(found) == IF found > 0 THEN DELAY_MS ELSE 0
sleepAfterRange(found) == DELAY_MS

\* a search or commit call of range mi leaves: what an observer notes
NotesCall ==
  /\ gap' = [prev |-> lastRange, cur |-> mi, slept |-> sleptMs]
  /\ lastRange' = mi
  /\ sleptMs' = 0

EnterFetchLinesOfCode ==
  /\ pc = "fetchLinesOfCode"
  /\ LET startDate == ParseISO(user.created_at)
         startMonth == getMonth(startDate)
         startYear == getFullYear(startDate)
     IN  monthlyDateRanges' = calculateDateRanges("month", startYear, startMonth, clock)
  /\ additions' = 0
  /\ deletions' = 0
  /\ fetchLinesOfCodeAPICallCount' = 0
  /\ mi' = 1
  /\ pc' = "rangesLoop"
  /\ UNCHANGED <<pending, returned, envVars, mainVars, pageVars, contribVars, commits, ci,
                 commitVars, remoteVars, contribHist, locHist, failHist, issued, chunkVars,
                 renderVars>>

\* octokit.paginate(octokit.rest.search.commits, {q, per_page: 100}) asks for
\* the first page of the range, then for every page the answer says follows
SearchPageSend ==
  /\ \/ pc = "rangesLoop" /\ mi <= Len(monthlyDateRanges)
     \/ pc = "searchCommits"
  /\ Sends("search")
  /\ NotesCall
  /\ pc' = "searchCommits"
  /\ UNCHANGED <<returned, envVars, mainVars, pageVars, contribVars, locVars, commitVars,
                 remoteVars, contribHist, pageFetches, detailFetches, failHist, chunkVars,
                 renderVars>>

SearchPageOk ==
  /\ pc = "searchCommits"
  /\ pending = "search"
  /\ pending' = "none"
  /\ pageFetches' = pageFetches + 1
  /\ \E total \in (IF pageNo = 0 THEN offered.commits ELSE {pageItems + pageRest}) :
       LET got == Min(PER_PAGE, total - pageItems)
           rest == total - pageItems - got
       IN  IF rest = 0
           THEN /\ commits' = pageItems + got
                /\ fetchLinesOfCodeAPICallCount' = fetchLinesOfCodeAPICallCount + 1
                /\ ci' = 1
                /\ pc' = "commitsLoop"
                /\ pageNo' = 0 /\ pageItems' = 0 /\ pageRest' = 0
           ELSE /\ pageNo' = pageNo + 1
                /\ pageItems' = pageItems + got
                /\ pageRest' = rest
                /\ UNCHANGED <<pc, commits, ci, fetchLinesOfCodeAPICallCount>>
  /\ UNCHANGED <<returned, envVars, mainVars, contribVars, monthlyDateRanges, mi, additions,
                 deletions, commitVars, remoteVars, contribHist, detailFetches, lastRange,
                 sleptMs, gap, failHist, issued, chunkVars, renderVars>>

CommitDetailSend ==
  /\ pc = "commitsLoop"
  /\ ci <= commits
  /\ Sends("commit")
  /\ NotesCall
  /\ UNCHANGED <<pc, returned, envVars, mainVars, pageVars, contribVars, locVars, commitVars,
                 remoteVars, contribHist, pageFetches, detailFetches, failHist, chunkVars,
                 renderVars>>

CommitDetailOk ==
  /\ pc = "commitsLoop"
  /\ pending = "commit"
  /\ pending' = "none"
  /\ additions' = additions + commitStats(ci).additions
  /\ deletions' = deletions + commitStats(ci).deletions
  /\ fetchLinesOfCodeAPICallCount' = fetchLinesOfCodeAPICallCount + 1
  /\ ci' = ci + 1
  /\ detailFetches' = detailFetches + 1
  /\ UNCHANGED <<pc, returned, envVars, mainVars, pageVars, contribVars, monthlyDateRanges,
                 mi, commits, commitVars, remoteVars, contribHist, pageFetches, lastRange,
                 sleptMs, gap, failHist, issued, chunkVars, renderVars>>

RangeDelay ==
  /\ pc = "commitsLoop"
  /\ pending = "none"
  /\ ci > commits
  /\ sleptMs' = sleptMs + sleepAfterRange(commits)
  /\ mi' = mi + 1
  /\ pc' = "rangesLoop"
  /\ UNCHANGED <<pending, returned, envVars, mainVars, pageVars, contribVars,
                 monthlyDateRanges, commits, ci, additions, deletions,
                 fetchLinesOfCodeAPICallCount, commitVars, remoteVars, contribHist,
                 pageFetches, detailFetches, lastRange, gap, failHist, issued, chunkVars,
                 renderVars>>

FetchLinesOfCodeReturn ==
  /\ pc = "rangesLoop"
  /\ pending = "none"
  /\ mi > Len(monthlyDateRanges)
  /\ IF entry = "main"
     THEN /\ APIRequests' = APIRequests + fetchLinesOfCodeAPICallCount
          /\ pc' = "generatePopulatedTemplate"
          /\ UNCHANGED returned
     ELSE /\ returned' = <<[additions |-> additions, deletions |-> deletions,
                           fetchLinesOfCodeAPICallCount |-> fetchLinesOfCodeAPICallCount]>>
          /\ pc' = "done"
          /\ UNCHANGED APIRequests
  /\ UNCHANGED <<pending, envVars, user, repositories, pageVars, contribVars, locVars,
                 commitVars, remoteVars, contribHist, locHist, failHist, issued, chunkVars,
                 renderVars>>

\* a call of fetchLinesOfCode(octokit, username, since) on its own
InitLoc ==
  /\ PipeStart("fetchLinesOfCode", "fetchLinesOfCode")
  /\ clock = DateUTC(NowYear, 2, 15) + 1
  /\ createdAt \in {toISOString(DateUTC(NowYear, 2 - k, 10) + 1) : k \in 0..MaxMonthsBack}
  /\ user = [login |-> "login", created_at |-> createdAt]
  /\ offered = [totals |-> {}, commits |-> {0, 2, PER_PAGE, PER_PAGE + 1}, repos |-> {}]
  /\ ChunkIdle
  /\ RenderIdle

NextLoc ==
  \/ EnterFetchLinesOfCode
  \/ SearchPageSend
  \/ SearchPageOk
  \/ CommitDetailSend
  \/ CommitDetailOk
  \/ RangeDelay
  \/ FetchLinesOfCodeReturn
  \/ Rejected

SpecLoc == InitLoc /\ [][NextLoc]_vars

\* ------------------------------------------------- commitPopulatedTemplate
\* Buffer.from(text).toString("base64"), and the service decoding it
toBase64(text) == [encoding |-> "base64", of |-> text]
fromBase64(content) == content.of

\* the sha the write carries: the one getReadme answered (sha: readmeSha)
\* (faulty variant: the sha the document has when the write is sent)
shaRefetched(read, current) == current
shaSent(read, current) == read

EnterCommitPopulatedTemplate ==
  /\ pc = "commitPopulatedTemplate"
  /\ commitPopulatedTemplateAPICallCount' = 0
  /\ pc' = "getReadme"
  /\ UNCHANGED <<pending, returned, envVars, mainVars, pageVars, contribVars, locVars,
                 readmeSha, remoteVars, contribHist, locHist, failHist, issued, chunkVars,
                 renderVars>>

GetReadmeSend ==
  /\ pc = "getReadme"
  /\ Sends("getReadme")
  /\ readmeReads' = readmeReads + 1
  /\ UNCHANGED <<pc, returned, envVars, mainVars, pageVars, contribVars, locVars,
                 commitVars, remote, sentSha, otherWrites, ourWrites, otherSinceRead,
                 staleWrite, readmeWrites, conflicts, contribHist, locHist, failHist,
                 chunkVars, renderVars>>

GetReadmeOk ==
  /\ pc = "getReadme"
  /\ pending = "getReadme"
  /\ pending' = "none"
  /\ readmeSha' = remote.sha
  /\ commitPopulatedTemplateAPICallCount' = commitPopulatedTemplateAPICallCount + 1
  /\ pc' = "createOrUpdateFileContents"
  /\ UNCHANGED <<returned, envVars, mainVars, pageVars, contribVars, locVars, remoteVars,
                 contribHist, locHist, failHist, issued, chunkVars, renderVars>>

PutReadmeSend ==
  /\ pc = "createOrUpdateFileContents"
  /\ Sends("createOrUpdateFileContents")
  /\ sentSha' = shaSent(readmeSha, remote.sha)
  /\ readmeWrites' = readmeWrites + 1
  /\ UNCHANGED <<pc, returned, envVars, mainVars, pageVars, contribVars, locVars,
                 commitVars, remote, otherWrites, ourWrites, otherSinceRead, staleWrite,
                 readmeReads, conflicts, contribHist, locHist, failHist, chunkVars,
                 renderVars>>

\* the service accepts a write that carries the sha of the document it holds
PutReadmeOk ==
  /\ pc = "createOrUpdateFileContents"
  /\ pending = "createOrUpdateFileContents"
  /\ sentSha = remote.sha
  /\ pending' = "none"
  /\ remote' = [sha |-> remote.sha + 1, content |-> fromBase64(toBase64(populatedTemplate))]
  /\ ourWrites' = ourWrites + 1
  /\ staleWrite' = IF otherSinceRead THEN staleWrite + 1 ELSE staleWrite
  /\ commitPopulatedTemplateAPICallCount' = commitPopulatedTemplateAPICallCount + 1
  /\ pc' = "commitReturn"
  /\ UNCHANGED <<returned, envVars, mainVars, pageVars, contribVars, locVars, readmeSha,
                 sentSha, otherWrites, otherSinceRead, readmeReads, readmeWrites, conflicts,
                 contribHist, locHist, failHist, issued, chunkVars, renderVars>>

\* and refuses one that carries another sha: the call rejects
PutReadmeConflict ==
  /\ pc = "createOrUpdateFileContents"
  /\ pending = "createOrUpdateFileContents"
  /\ sentSha # remote.sha
  /\ pending' = "none"
  /\ conflicts' = conflicts + 1
  /\ pc' = onRejection(pc)
  /\ failures' = failures + 1
  /\ issuedAtFailure' = IF failures = 0 THEN issued ELSE issuedAtFailure
  /\ UNCHANGED <<returned, envVars, mainVars, pageVars, contribVars, locVars, commitVars,
                 remote, sentSha, otherWrites, ourWrites, otherSinceRead, staleWrite,
                 readmeReads, readmeWrites, contribHist, locHist, issued, chunkVars,
                 renderVars>>

CommitPopulatedTemplateReturn ==
  /\ pc = "commitReturn"
  /\ IF entry = "main"
     THEN /\ APIRequests' = APIRequests + commitPopulatedTemplateAPICallCount
          /\ UNCHANGED returned
     ELSE /\ returned' = <<commitPopulatedTemplateAPICallCount>>
          /\ UNCHANGED APIRequests
  /\ pc' = "done"
  /\ UNCHANGED <<pending, envVars, user, repositories, pageVars, contribVars, locVars,
                 commitVars, remoteVars, contribHist, locHist, failHist, issued, chunkVars,
                 renderVars>>

\* another writer (a person, another run of the workflow) updates readme.md
OtherWriter ==
  /\ otherWrites < MaxOtherWrites
  /\ otherWrites' = otherWrites + 1
  /\ remote' = [sha |-> remote.sha + 1, content |-> <<"t", "h", "e", "i", "r", "s">>]
  /\ otherSinceRead' = (otherSinceRead \/ pc = "createOrUpdateFileContents")
  /\ UNCHANGED <<ctlVars, envVars, mainVars, pageVars, contribVars, locVars, commitVars,
                 sentSha, ourWrites, staleWrite, readmeReads, readmeWrites, conflicts,
                 contribHist, locHist, failHist, issued, chunkVars, renderVars>>

\* a call of commitPopulatedTemplate(octokit, username, populatedTemplate) on
\* its own
InitPublish ==
  /\ PipeStart("commitPopulatedTemplate", "commitPopulatedTemplate")
  /\ clock = DateUTC(NowYear, 2, 15) + 1
  /\ createdAt = toISOString(DateUTC(NowYear, 2, 10) + 1)
  /\ user = [login |-> "login", created_at |-> createdAt]
  /\ offered = [totals |-> {}, commits |-> {}, repos |-> {}]
  /\ ChunkIdle
  /\ template = <<>> /\ stats = <<>> /\ replaced = <<>> /\ rpc = "idle"
  /\ populatedTemplate \in {<<"n", "e", "w">>, <<"o", "l", "d">>, <<>>}

NextPublish ==
  \/ EnterCommitPopulatedTemplate
  \/ GetReadmeSend
  \/ GetReadmeOk
  \/ PutReadmeSend
  \/ PutReadmeOk
  \/ PutReadmeConflict
  \/ CommitPopulatedTemplateReturn
  \/ OtherWriter
  \/ Rejected

SpecPublish == InitPublish /\ [][NextPublish]_vars

\* --------------------------------------------------------------------- main
\* String(n) for a count
DigitChar(d) == <<"0", "1", "2", "3", "4", "5", "6", "7", "8", "9">>[d + 1]

RECURSIVE String(_)
String(n) == IF n < 10 THEN <<DigitChar(n)>> ELSE String(n \div 10) \o <<DigitChar(n % 10)>>

KeyRepositories == <<"r", "e", "p", "o", "s", "i", "t", "o", "r", "i", "e", "s">>
KeyContributions == <<"c", "o", "n", "t", "r", "i", "b", "u", "t", "i", "o", "n", "s">>
KeyLinesOfCode == <<"l", "i", "n", "e", "s", "_", "o", "f", "_", "c", "o", "d", "e">>

\* the entries of stats main computes from the remote answers (the others
\* are copied from the configuration file)
mainStats ==
  (KeyRepositories :> String(repositories))
    @@ (KeyContributions :> String(contributions))
    @@ (KeyLinesOfCode :>
          String(additions + deletions) \o <<" ", "(", "+">> \o String(additions)
            \o <<" ", "/", " ", "-">> \o String(deletions) \o <<")">>)

GetAuthenticatedSend ==
  /\ pc = "getAuthenticated"
  /\ Sends("getAuthenticated")
  /\ UNCHANGED <<pc, returned, envVars, mainVars, pageVars, contribVars, locVars,
                 commitVars, remoteVars, contribHist, locHist, failHist, chunkVars,
                 renderVars>>

GetAuthenticatedOk ==
  /\ pc = "getAuthenticated"
  /\ pending = "getAuthenticated"
  /\ pending' = "none"
  /\ user' = [login |-> "login", created_at |-> createdAt]
  /\ APIRequests' = APIRequests + 1
  /\ pc' = "listForAuthenticatedUser"
  /\ UNCHANGED <<returned, envVars, repositories, pageVars, contribVars, locVars,
                 commitVars, remoteVars, contribHist, locHist, failHist, issued, chunkVars,
                 renderVars>>

\* octokit.paginate(octokit.rest.repos.listForAuthenticatedUser, {per_page: 100})
ListReposPageSend ==
  /\ pc = "listForAuthenticatedUser"
  /\ Sends("listForAuthenticatedUser")
  /\ UNCHANGED <<pc, returned, envVars, mainVars, pageVars, contribVars, locVars,
                 commitVars, remoteVars, contribHist, locHist, failHist, chunkVars,
                 renderVars>>

ListReposPageOk ==
  /\ pc = "listForAuthenticatedUser"
  /\ pending = "listForAuthenticatedUser"
  /\ pending' = "none"
  /\ \E total \in (IF pageNo = 0 THEN offered.repos ELSE {pageItems + pageRest}) :
       LET got == Min(PER_PAGE, total - pageItems)
           rest == total - pageItems - got
       IN  IF rest = 0
           THEN /\ repositories' = pageItems + got
                /\ APIRequests' = APIRequests + 1
                /\ pc' = "fetchContributions"
                /\ pageNo' = 0 /\ pageItems' = 0 /\ pageRest' = 0
           ELSE /\ pageNo' = pageNo + 1
                /\ pageItems' = pageItems + got
                /\ pageRest' = rest
                /\ UNCHANGED <<pc, repositories, APIRequests>>
  /\ UNCHANGED <<returned, envVars, user, contribVars, locVars, commitVars, remoteVars,
                 contribHist, locHist, failHist, issued, chunkVars, renderVars>>

\* main builds stats and awaits generatePopulatedTemplate(stats)
MainGeneratePopulatedTemplate ==
  /\ pc = "generatePopulatedTemplate"
  /\ stats' = mainStats
  /\ LET result == generatePopulatedTemplate(template, mainStats)
     IN  /\ populatedTemplate' = result.out
         /\ replaced' = result.calls
  /\ pc' = "commitPopulatedTemplate"
  /\ UNCHANGED <<pending, returned, envVars, mainVars, pageVars, contribVars, locVars,
                 commitVars, remoteVars, contribHist, locHist, failHist, issued, chunkVars,
                 template, rpc>>

MainTemplate ==
  <<"{", "{">> \o KeyContributions \o <<"}", "}", "\n", "{", "{", " ">> \o KeyLinesOfCode
    \o <<" ", "}", "}", "\n", "{", "{">> \o KeyRepositories \o <<"}", "}">>

\* a run of the script
InitMain ==
  /\ PipeStart("main", "getAuthenticated")
  /\ clock = DateUTC(NowYear, 1, 15) + 1
  /\ createdAt \in {toISOString(DateUTC(NowYear, 1 - k, 10) + 1) : k \in 0..MaxMonthsBack}
  /\ user = <<>>
  /\ offered = [totals |-> {3, 5}, commits |-> {0, 2}, repos |-> {3, PER_PAGE + 1}]
  /\ ChunkIdle
  /\ template = MainTemplate
  /\ stats = <<>> /\ populatedTemplate = <<>> /\ replaced = <<>> /\ rpc = "idle"

NextMain ==
  \/ GetAuthenticatedSend
  \/ GetAuthenticatedOk
  \/ ListReposPageSend
  \/ ListReposPageOk
  \/ EnterFetchContributions
  \/ ContributionsQuerySend
  \/ ContributionsQueryOk
  \/ FetchContributionsReturn
  \/ EnterFetchLinesOfCode
  \/ SearchPageSend
  \/ SearchPageOk
  \/ CommitDetailSend
  \/ CommitDetailOk
  \/ RangeDelay
  \/ FetchLinesOfCodeReturn
  \/ MainGeneratePopulatedTemplate
  \/ EnterCommitPopulatedTemplate
  \/ GetReadmeSend
  \/ GetReadmeOk
  \/ PutReadmeSend
  \/ PutReadmeOk
  \/ PutReadmeConflict
  \/ CommitPopulatedTemplateReturn
  \/ OtherWriter
  \/ Rejected

SpecMain == InitMain /\ [][NextMain]_vars

\* ------------------------------------------------- claims on the chunker
\* ISO strings of four-digit years order as their fields do, left to right
IsoLess(a, b) ==
  \E k \in 1..4 : a[k] < b[k] /\ \A j \in 1..(k - 1) : a[j] = b[j]

\* the start the caller asked for, written as an ISO string
GivenStart ==
  IF chunk = "month" THEN <<fromYear, fromMonth + 1, 1, 0>> ELSE <<fromYear, 1, 1, 0>>

NowIso == toISOString(now)

\* the calendar arithmetic agrees with known dates: 2026-01-01 is day 20454,
\* 2024 is a leap year, and an ISO string names the instant it was made from
CalendarSane ==
  /\ DateUTC(2026, 0, 1) = 20454 * TicksPerDay
  /\ DateUTC(2024, 2, 1) - DateUTC(2024, 1, 1) = 29 * TicksPerDay
  /\ DateUTC(2025, 12, 1) = DateUTC(2026, 0, 1)
  /\ toISOString(DateUTC(2026, 2, 15) + 1) = <<2026, 3, 15, 1>>
  /\ ParseISO(NowIso) = now

\* C1: for a start not in the future the returned ranges are contiguous
\* (each range's to is the next range's from), strictly increasing (from is
\* before to and before the next from), and the first from is the given
\* start: day 1 of (fromYear, fromMonth) for "month", January 1 of fromYear
\* for "year" whatever fromMonth is.
C1_ContiguousIncreasingFromStart ==
  (cpc = "returned" /\ ~IsoLess(NowIso, GivenStart)) =>
    /\ \A i \in 1..(Len(ranges) - 1) :
         /\ ranges[i].to = ranges[i + 1].from
         /\ IsoLess(ranges[i].from, ranges[i + 1].from)
    /\ \A i \in 1..Len(ranges) : IsoLess(ranges[i].from, ranges[i].to)
    /\ IsoLess(GivenStart, NowIso) => Len(ranges) >= 1
    /\ Len(ranges) >= 1 => ranges[1].from = GivenStart

C1_Witness ==
  /\ cpc = "returned"
  /\ chunk = "year"
  /\ fromMonth = 7
  /\ Len(ranges) = 3
  /\ ranges[1].from = <<NowYear - 2, 1, 1, 0>>
  /\ ranges[2].from = ranges[1].to

\* the returned ranges as pairs of instants <<from, to>>; a range holds the
\* instants from its from up to, not including, its to
Spans == [i \in 1..Len(ranges) |-> <<ParseISO(ranges[i].from), ParseISO(ranges[i].to)>>]

Holders(sp, t) == {i \in DOMAIN sp : sp[i][1] <= t /\ t < sp[i][2]}

\* C2 as claimed: the ranges cover exactly [start, now): every instant from
\* the start up to now lies in exactly one range, and no range holds an
\* instant at or after now.
C2_CoverExactlyUntilNow ==
  cpc = "returned" =>
    LET sp == Spans
    IN  /\ \A t \in ParseISO(GivenStart)..(now - 1) : Cardinality(Holders(sp, t)) = 1
        /\ \A i \in DOMAIN sp : \A t \in sp[i][1]..(sp[i][2] - 1) : t < now

\* C2 amended: the ranges do not overlap, none begins before the start or
\* at or after now, every instant of [start, now) lies in exactly one range,
\* and the last range ends at the first chunk boundary at or after now, so
\* it may hold instants at or after now.
C2_CoverUntilBoundary ==
  cpc = "returned" =>
    LET sp == Spans
        start == ParseISO(GivenStart)
    IN  /\ \A t \in start..(now - 1) : Cardinality(Holders(sp, t)) = 1
        /\ \A i \in DOMAIN sp : start <= sp[i][1] /\ sp[i][1] < now
        /\ \A i \in DOMAIN sp : \A j \in (i + 1)..Len(sp) : sp[i][2] <= sp[j][1]
        /\ Len(ranges) >= 1 =>
             LET last == ranges[Len(ranges)]
             IN  /\ now <= ParseISO(last.to)
                 /\ last.to[3] = 1 /\ last.to[4] = 0
                 /\ chunk = "year" => last.to[2] = 1

C2_Witness ==
  /\ cpc = "returned"
  /\ chunk = "month"
  /\ Len(ranges) >= 2
  /\ now < ParseISO(ranges[Len(ranges)].to)
  /\ ParseISO(ranges[Len(ranges)].from) < now

\* C3 as claimed: a start strictly after now gives no range, and for "year"
\* a fromYear equal to the current year never gives an empty sequence.
C3_FutureEmptyCurrentYearNever ==
  cpc = "returned" =>
    /\ IsoLess(NowIso, GivenStart) => ranges = <<>>
    /\ (chunk = "year" /\ fromYear = NowIso[1]) => ranges # <<>>

\* C3 amended: a start strictly after now gives no range, for both
\* granularities; for "year" with fromYear equal to the current UTC year the
\* sequence is empty only when now is exactly January 1 00:00:00.000 UTC of
\* that year, whatever fromMonth is.
C3_FutureEmptyCurrentYearUnlessBoundary ==
  cpc = "returned" =>
    /\ IsoLess(NowIso, GivenStart) => ranges = <<>>
    /\ (chunk = "year" /\ fromYear = NowIso[1]) =>
         (ranges = <<>> <=> NowIso = <<fromYear, 1, 1, 0>>)

C3_Witness ==
  /\ cpc = "returned"
  /\ chunk = "month"
  /\ fromYear = NowIso[1]
  /\ fromMonth = NowIso[2]
  /\ IsoLess(NowIso, GivenStart)
  /\ ranges = <<>>

\* ------------------------------------------------ claims on the renderer
Dots(n) == [i \in 1..n |-> "."]

LeadingDots(str) ==
  CHOOSE n \in 0..Len(str) :
    /\ \A i \in 1..n : str[i] = "."
    /\ (n < Len(str) => str[n + 1] # ".")

EndsWith(str, suffix) ==
  /\ Len(suffix) <= Len(str)
  /\ SubSeq(str, Len(str) - Len(suffix) + 1, Len(str)) = suffix

\* the key of a placeholder with the whitespace around it removed
Trimmed(key) ==
  LET inner == {i \in 1..Len(key) : key[i] # " "}
  IN  IF inner = {} THEN <<>>
      ELSE SubSeq(key, CHOOSE i \in inner : \A k \in inner : i <= k,
                       CHOOSE i \in inner : \A k \in inner : i >= k)

Substituted(key) == IF Trimmed(key) \in DOMAIN stats THEN stats[Trimmed(key)] ELSE NA

\* C4: every placeholder, written with or without whitespace around its
\* key, is replaced by a filler run of exactly
\* max(0, 64 - 5 - len(trimmed key) - len(value)) characters followed by
\* the value.
C4_FillerSizedByTrimmedKey ==
  rpc = "returned" =>
    \A c \in 1..Len(replaced) :
      LET key == replaced[c].key
          value == Substituted(key)
      IN  /\ LeadingDots(replaced[c].text) = Max(0, 64 - 5 - Len(Trimmed(key)) - Len(value))
          /\ EndsWith(replaced[c].text, value)

\* C5: a placeholder whose trimmed key is absent from the statistics
\* mapping is replaced by a filler run sized for a value of length 3, then
\* "N/A"; one whose trimmed key is present is replaced by a filler run and
\* the mapped string, not "N/A".
C5_AbsentKeyGivesNA ==
  rpc = "returned" =>
    \A c \in 1..Len(replaced) :
      LET key == replaced[c].key
          out == replaced[c].text
      IN  IF Trimmed(key) \in DOMAIN stats
          THEN LET value == stats[Trimmed(key)]
               IN  /\ out = Dots(Max(0, 64 - 5 - Len(key) - Len(value))) \o <<" ">> \o value
                   /\ ~EndsWith(out, NA)
          ELSE out = Dots(Max(0, 64 - 5 - Len(key) - 3)) \o <<" ", "N", "/", "A">>

C5_Witness ==
  /\ rpc = "returned"
  /\ DOMAIN stats = {<<"x">>}
  /\ Len(replaced) = 2
  /\ replaced[1].key = <<" ", "x", " ">>
  /\ EndsWith(replaced[1].text, stats[<<"x">>])
  /\ replaced[2].key = <<"y", " ">>
  /\ EndsWith(populatedTemplate, <<".", " ", "N", "/", "A">>)

\* ------------------------------------------------ claims on the pipeline
RECURSIVE Sum(_)
Sum(seq) == IF seq = <<>> THEN 0 ELSE Head(seq) + Sum(Tail(seq))

\* C6: fetchContributions sends exactly one graph query per yearly range, in
\* range order, and on success returns the sum of the totals answered and a
\* call count equal to the number of yearly ranges.
C6_OneQueryPerYearSummed ==
  /\ Len(queried) <= Len(yearlyDateRanges)
  /\ \A i \in 1..Len(queried) :
       /\ queried[i].start = yearlyDateRanges[i].from
       /\ queried[i].end = yearlyDateRanges[i].to
       /\ queried[i].start[1] = createdAt[1] + i - 1
  /\ returned # <<>> =>
       /\ Len(queried) = Len(yearlyDateRanges)
       /\ Len(responses) = Len(yearlyDateRanges)
       /\ returned[1].contributions = Sum(responses)
       /\ returned[1].fetchContributionsAPICallCount = Len(yearlyDateRanges)
       /\ Len(yearlyDateRanges) = NowYear - createdAt[1] + 1

C6_Witness ==
  /\ returned # <<>>
  /\ responses = <<3, 5, 7>>
  /\ returned[1].contributions = 15
  /\ returned[1].fetchContributionsAPICallCount = 3
  /\ Len(queried) = 3

\* C7: the call count fetchLinesOfCode returns is the number of search page
\* fetches plus the number of commit detail fetches it performed.
C7_CountsEveryPageAndDetail ==
  (entry = "fetchLinesOfCode" /\ returned # <<>>) =>
    returned[1].fetchLinesOfCodeAPICallCount = pageFetches + detailFetches

C8_StaleWriteRefused ==
  /\ readmeReads <= 1
  /\ readmeWrites <= 1
  /\ readmeWrites = 1 => (readmeReads = 1 /\ commitPopulatedTemplateAPICallCount >= 1)
  /\ pending = "createOrUpdateFileContents" => sentSha = readmeSha
  /\ staleWrite = 0
  /\ otherSinceRead =>
       /\ ourWrites = 0
       /\ returned = <<>>
       /\ remote.content = <<"t", "h", "e", "i", "r", "s">>
       /\ pc \in {"createOrUpdateFileContents", "failed"}
  /\ conflicts >= 1 => (pc = "failed" /\ conflicts = 1 /\ otherSinceRead)
  /\ returned # <<>> => (returned = <<2>> /\ ourWrites = 1 /\ readmeWrites = 1)

C8_Witness ==
  /\ pc = "failed"
  /\ conflicts = 1
  /\ otherSinceRead
  /\ readmeReads = 1
  /\ readmeWrites = 1
  /\ remote.content = <<"t", "h", "e", "i", "r", "s">>

\* C9: in a run of the script the first failure of a remote call ends the
\* run: no remote call is sent after it, none is sent again, and readme.md is
\* written only in a run whose earlier calls all succeeded, with statistics
\* of every yearly and monthly range.
C9_FirstFailureEndsRun ==
  /\ failures <= 1
  /\ failures = 1 =>
       /\ pc = "failed"
       /\ pending = "none"
       /\ issued = issuedAtFailure
       /\ ourWrites = 0
       /\ remote.content # populatedTemplate
  /\ ourWrites >= 1 =>
       /\ failures = 0
       /\ ourWrites = 1
       /\ issued = 2 + Len(yearlyDateRanges) + pageFetches + detailFetches + 2
                     + (IF repositories > PER_PAGE THEN 1 ELSE 0)
       /\ Len(responses) = Len(yearlyDateRanges)
       /\ mi = Len(monthlyDateRanges) + 1
       /\ stats[KeyContributions] = String(Sum(responses))

C9_Witness ==
  /\ pc = "failed"
  /\ failures = 1
  /\ lastRange = 2
  /\ detailFetches = 3
  /\ pending = "none"
  /\ issued = issuedAtFailure
  /\ ourWrites = 0

====
